---------------------------- MODULE Spec2Model ----------------------------
(***************************************************************************)
(* A model of src/ddpg/model.py: the Actor and Critic networks of a DDPG   *)
(* agent, their construction (seeding, layer creation, weight              *)
(* initialisation) and their forward passes (linear stages, batch          *)
(* normalisation with running statistics, relu, concatenation, tanh).      *)
(*                                                                         *)
(* Tensors hold bounded floating-point numbers.  A float is an integer     *)
(* count of 1/Scale units; magnitudes above MaxFin overflow to +-infinity  *)
(* and undefined results (inf - inf, 0 * inf, 0 / 0) are NaN, as in IEEE   *)
(* arithmetic.  The process-wide random generator is a deterministic       *)
(* generator state `gen`; torch.manual_seed sets it, every draw advances   *)
(* it.                                                                     *)
(***************************************************************************)
EXTENDS Integers, Sequences, FiniteSets

VARIABLES
    gen,    \* state of the process-wide (default) random generator
    net,    \* the object yielded by the last construction call, or NoNet
    kept,   \* a copy of a network the caller constructed earlier, as it was then
    last    \* record of the last call: what was called, with what, and how it ended

vars == <<gen, net, kept, last>>

---------------------------------------------------------------------------
(* Bounds of the model *)

\* resolution of the floats: the float v is the integer v * Scale
Scale == 1000
\* largest finite float, in 1/Scale units
MaxFin == 1000000
\* number of states of the random generator
RngMod == 8
\* largest batch size of a forward call
MaxBatch == 2
\* cap on the number of training-mode batches a normalization stage tracks
MaxTracked == 1

---------------------------------------------------------------------------
(* Floats *)

PInf == MaxFin + 1
NInf == -(MaxFin + 1)
NaN == MaxFin + 2

IsNaN(a) == a = NaN
IsInf(a) == a = PInf \/ a = NInf
IsFin(a) == ~IsNaN(a) /\ ~IsInf(a)

Abs(a) == IF a < 0 THEN -a ELSE a
Sgn(a) == IF a < 0 THEN -1 ELSE IF a > 0 THEN 1 ELSE 0

\* integer division rounding toward zero
TDiv(a, b) == Sgn(a) * Sgn(b) * (Abs(a) \div Abs(b))

\* an exact result, overflowing to an infinity beyond MaxFin
FRound(x) == IF x > MaxFin THEN PInf ELSE IF x < -MaxFin THEN NInf ELSE x

\* the float of a small integer
ToFloat(n) == FRound(n * Scale)

FNeg(a) == IF IsNaN(a) THEN NaN ELSE -a

FAdd(a, b) ==
    IF IsNaN(a) \/ IsNaN(b) THEN NaN
    ELSE IF IsInf(a) THEN (IF IsInf(b) /\ b # a THEN NaN ELSE a)
    ELSE IF IsInf(b) THEN b
    ELSE FRound(a + b)

FSub(a, b) == FAdd(a, FNeg(b))

\* the product of two magnitudes, rounded toward zero to a whole number of units
MulUnits(a, b) == (a \div Scale) * b + ((a % Scale) * b) \div Scale

FMul(a, b) ==
    IF IsNaN(a) \/ IsNaN(b) THEN NaN
    ELSE IF IsInf(a) \/ IsInf(b)
         THEN (IF a = 0 \/ b = 0 THEN NaN
               ELSE IF Sgn(a) * Sgn(b) > 0 THEN PInf ELSE NInf)
    ELSE FRound(Sgn(a) * Sgn(b) * MulUnits(Abs(a), Abs(b)))

FDiv(a, b) ==
    IF IsNaN(a) \/ IsNaN(b) THEN NaN
    ELSE IF IsInf(a) THEN (IF IsInf(b) THEN NaN
                           ELSE IF Sgn(a) * (IF b < 0 THEN -1 ELSE 1) > 0 THEN PInf ELSE NInf)
    ELSE IF IsInf(b) THEN 0
    ELSE IF b = 0 THEN (IF a = 0 THEN NaN ELSE IF a > 0 THEN PInf ELSE NInf)
    ELSE FRound(TDiv(a * Scale, b))

\* division of a float by a positive count
FDivInt(a, n) == IF IsFin(a) THEN TDiv(a, n) ELSE a

RECURSIVE ISqrtIter(_, _, _)
ISqrtIter(n, lo, hi) ==
    IF lo >= hi THEN lo
    ELSE LET mid == (lo + hi + 1) \div 2
         IN  IF mid * mid <= n THEN ISqrtIter(n, mid, hi) ELSE ISqrtIter(n, lo, mid - 1)

\* the integer square root, rounded down
ISqrt(n) == ISqrtIter(n, 0, IF n < 46340 THEN n ELSE 46340)

FSqrt(a) ==
    IF IsNaN(a) \/ a < 0 THEN NaN
    ELSE IF a = PInf THEN PInf
    ELSE ISqrt(a * Scale)

\* sum of f[1] .. f[n]
RECURSIVE FSum(_, _)
FSum(f, n) == IF n = 0 THEN 0 ELSE FAdd(FSum(f, n - 1), f[n])

---------------------------------------------------------------------------
(* The random generator *)

None == <<>>
Some(x) == <<x>>

\* one step of the generator
RngStep(g) == (5 * g + 3) % RngMod

\* the generator k draws later
RECURSIVE RngAt(_, _)
RngAt(g, k) == IF k = 0 THEN g ELSE RngAt(RngStep(g), k - 1)

\* torch.manual_seed(seed): the generator's state becomes a function of the seed alone
ManualSeed(seed) == seed % RngMod

\* one uniform sample of [lo, hi) from generator state gs
Draw(gs, lo, hi) == lo + TDiv((hi - lo) * gs, RngMod)

\* tensor.uniform_(lo, hi): fails on a bound that is not finite, else overwrites every
\* element, row by row, with successive draws
uniform_(shape, g, lo, hi) ==
    IF ~IsFin(lo) \/ ~IsFin(hi)
    THEN [ok |-> FALSE, data |-> <<>>, gen |-> g]
    ELSE [ok |-> TRUE,
          data |-> [r \in 1..shape[1] |->
                      [c \in 1..shape[2] |->
                          Draw(RngAt(g, (r - 1) * shape[2] + c), lo, hi)]],
          gen |-> RngAt(g, shape[1] * shape[2])]


---------------------------------------------------------------------------
(* Layers *)

\* the default bound of nn.Linear's own initialisation: 1/sqrt(in_features), and 0 for a
\* layer without inputs
DefaultBound(in_features) ==
    IF in_features > 0 THEN FDiv(ToFloat(1), FSqrt(ToFloat(in_features))) ELSE 0

\* the default weight: a weight without elements is left alone
DefaultWeight(shape, g, bound) ==
    IF shape[1] = 0 \/ shape[2] = 0
    THEN [ok |-> TRUE, data |-> [r \in 1..shape[1] |-> <<>>], gen |-> g]
    ELSE uniform_(shape, g, FNeg(bound), bound)

\* the layer made of its weight draw and its bias draw
LinearOf(in_features, out_features, w, b) ==
    [ok |-> TRUE,
     layer |-> [in_features |-> in_features,
                out_features |-> out_features,
                weight |-> [shape |-> <<out_features, in_features>>, data |-> w.data],
                bias |-> b.data[1]],
     gen |-> b.gen]

\* the bias follows the weight in the generator's stream
LinearAfterWeight(in_features, out_features, w, bound) ==
    LinearOf(in_features, out_features, w,
             uniform_(<<1, out_features>>, w.gen, FNeg(bound), bound))

\* nn.Linear(in_features, out_features): a weight of shape (out_features, in_features)
\* and a bias of out_features elements, both filled from the generator.  A negative
\* size cannot be allocated.
Linear(in_features, out_features, g) ==
    IF in_features < 0 \/ out_features < 0
    THEN [ok |-> FALSE, gen |-> g]
    ELSE LinearAfterWeight(in_features, out_features,
             DefaultWeight(<<out_features, in_features>>, g, DefaultBound(in_features)),
             DefaultBound(in_features))

\* nn.BatchNorm1d(num_features): unit scale, zero shift, running mean 0, running
\* variance 1, no batch tracked yet
BatchNorm1d(num_features) ==
    IF num_features < 0
    THEN [ok |-> FALSE]
    ELSE [ok |-> TRUE,
          layer |-> [num_features |-> num_features,
                     weight |-> [c \in 1..num_features |-> ToFloat(1)],
                     bias |-> [c \in 1..num_features |-> 0],
                     running_mean |-> [c \in 1..num_features |-> 0],
                     running_var |-> [c \in 1..num_features |-> ToFloat(1)],
                     num_batches_tracked |-> 0]]

\* layer.weight.data.size(): the weight of a linear layer is stored (out_features, in_features)
WeightSize(layer) == layer.weight.shape

\* the pair (-lim, lim)
Symmetric(lim) == <<FNeg(lim), lim>>

\* hidden_init(layer): fan_in = layer.weight.data.size()[0]; lim = 1. / np.sqrt(fan_in)
hidden_init(layer) ==
    Symmetric(FDiv(ToFloat(1), FSqrt(ToFloat(WeightSize(layer)[1]))))

\* the bound of the final stage's weights, 3e-3
FinalLim == (3 * Scale) \div 1000

---------------------------------------------------------------------------
(* Construction.  A constructor works on a record acc: the object under            *)
(* construction (self), the generator's state (gen), whether every statement so    *)
(* far succeeded (ok) and whether the generator was seeded (seeded).               *)

NoNet == [role |-> "none"]

Raise(kind, g, seeded) == [outcome |-> kind, net |-> NoNet, gen |-> g, seeded |-> seeded]

\* a constructor that never seeds the generator
SeedGeneratorSkipped(seed, g) == g

\* `if seed is not None: torch.manual_seed(seed)`
SeedGenerator(seed, g) == IF seed # None THEN ManualSeed(seed[1]) ELSE g

\* config["random_seed"]
GetSeed(config) ==
    IF "random_seed" \in DOMAIN config
    THEN [ok |-> TRUE, value |-> config.random_seed]
    ELSE [ok |-> FALSE]

\* config[role]["fc"][0] and config[role]["fc"][1]: "ok", or the error of the lookup
FcLookup(config, role) ==
    IF role \notin DOMAIN config THEN "KeyError"
    ELSE IF "fc" \notin DOMAIN config[role] THEN "KeyError"
    ELSE IF Len(config[role].fc) < 2 THEN "IndexError"
    ELSE "ok"

\* the lookups at the head of a constructor, in the order the code makes them
ConfigLookup(config, role) ==
    IF ~GetSeed(config).ok THEN "KeyError"
    ELSE IF "state_size" \notin DOMAIN config THEN "KeyError"
    ELSE IF "action_size" \notin DOMAIN config THEN "KeyError"
    ELSE FcLookup(config, role)

\* an attribute not assigned yet
Unset == [unset |-> TRUE]

\* super().__init__() and the seeding: a module in training mode, its layers to come
Begin(self, seed, g) ==
    [ok |-> TRUE, self |-> self, gen |-> SeedGenerator(seed, g), seeded |-> seed # None]

ActorModule ==
    [role |-> "Actor", training |-> TRUE,
     fc1 |-> Unset, bc1 |-> Unset, fc2 |-> Unset, bc2 |-> Unset, fc3 |-> Unset]

CriticModule ==
    [role |-> "Critic", training |-> TRUE,
     fcs1 |-> Unset, bc1 |-> Unset, fc2 |-> Unset, bc2 |-> Unset, fc3 |-> Unset]

Failed(acc, g) == [acc EXCEPT !.ok = FALSE, !.gen = g]

SetLayer(acc, name, made) ==
    IF made.ok
    THEN [acc EXCEPT !.self[name] = made.layer, !.gen = made.gen]
    ELSE Failed(acc, made.gen)

\* self.<name> = nn.Linear(in_features, out_features)
AddLinear(acc, name, in_features, out_features) ==
    IF ~acc.ok THEN acc
    ELSE SetLayer(acc, name, Linear(in_features, out_features, acc.gen))

SetNorm(acc, name, made) ==
    IF made.ok
    THEN [acc EXCEPT !.self[name] = made.layer]
    ELSE Failed(acc, acc.gen)

\* self.<name> = nn.BatchNorm1d(num_features)
AddBatchNorm(acc, name, num_features) ==
    IF ~acc.ok THEN acc
    ELSE SetNorm(acc, name, BatchNorm1d(num_features))

SetWeight(acc, name, u) ==
    IF u.ok
    THEN [acc EXCEPT !.self[name].weight.data = u.data, !.gen = u.gen]
    ELSE Failed(acc, u.gen)

\* self.<name>.weight.data.uniform_(*range)
FillWeight(acc, name, range) ==
    SetWeight(acc, name, uniform_(acc.self[name].weight.shape, acc.gen, range[1], range[2]))

\* self.<name>.weight.data.uniform_(*hidden_init(self.<name>))
FillHidden(acc, name) ==
    IF ~acc.ok THEN acc ELSE FillWeight(acc, name, hidden_init(acc.self[name]))

\* self.<name>.weight.data.uniform_(-3e-3, 3e-3)
FillFinal(acc, name) ==
    IF ~acc.ok THEN acc ELSE FillWeight(acc, name, <<-FinalLim, FinalLim>>)

\* the constructor returns the object, or raises what the failing statement raised
Finish(acc) ==
    IF acc.ok
    THEN [outcome |-> "ok", net |-> acc.self, gen |-> acc.gen, seeded |-> acc.seeded]
    ELSE Raise("RuntimeError", acc.gen, acc.seeded)

\* Actor.reset_parameters
ActorResetParameters(acc) ==
    FillFinal(FillHidden(FillHidden(acc, "fc1"), "fc2"), "fc3")

\* the layers of an Actor, in the order the code creates them
ActorLayers(acc, state_size, action_size, fc1_units, fc2_units) ==
    AddLinear(
        AddBatchNorm(
            AddLinear(
                AddBatchNorm(
                    AddLinear(acc, "fc1", state_size, fc1_units),
                    "bc1", fc1_units),
                "fc2", fc1_units, fc2_units),
            "bc2", fc2_units),
        "fc3", fc2_units, action_size)

\* Actor.__init__(config), the generator being in state g
ActorInit(config, g) ==
    IF ConfigLookup(config, "actor") # "ok"
    THEN Raise(ConfigLookup(config, "actor"), g, FALSE)
    ELSE Finish(ActorResetParameters(
             ActorLayers(Begin(ActorModule, GetSeed(config).value, g),
                         config.state_size, config.action_size,
                         config.actor.fc[1], config.actor.fc[2])))

\* Critic.reset_parameters
CriticResetParameters(acc) ==
    FillFinal(FillHidden(FillHidden(acc, "fcs1"), "fc2"), "fc3")

\* the layers of a Critic, in the order the code creates them
CriticLayers(acc, state_size, action_size, fcs1_units, fc2_units) ==
    AddLinear(
        AddBatchNorm(
            AddLinear(
                AddBatchNorm(
                    AddLinear(acc, "fcs1", state_size, fcs1_units),
                    "bc1", fcs1_units),
                "fc2", fcs1_units + action_size, fc2_units),
            "bc2", fc2_units),
        "fc3", fc2_units, 1)

\* Critic.__init__(config), the generator being in state g
CriticInit(config, g) ==
    IF ConfigLookup(config, "critic") # "ok"
    THEN Raise(ConfigLookup(config, "critic"), g, FALSE)
    ELSE Finish(CriticResetParameters(
             CriticLayers(Begin(CriticModule, GetSeed(config).value, g),
                          config.state_size, config.action_size,
                          config.critic.fc[1], config.critic.fc[2])))

---------------------------------------------------------------------------
(* Configurations *)

\* a config dict with every key the constructors read
Config(state_size, action_size, seed, fc) ==
    [state_size |-> state_size, action_size |-> action_size, random_seed |-> seed,
     actor |-> [fc |-> fc], critic |-> [fc |-> fc]]

\* a dict without one of its keys
Without(config, key) == [k \in DOMAIN config \ {key} |-> config[k]]

Seeds == {None, Some(3)}
Sizes == {1, 2}
FcLists == {<<a, b>> : a \in Sizes, b \in Sizes} \cup {<<2, 1, 2>>}

\* configs with positive sizes and at least two hidden widths
ValidConfigs ==
    {Config(ss, 1, sd, fc) : ss \in Sizes, sd \in Seeds, fc \in FcLists}
    \cup {Config(2, 2, sd, <<2, 2>>) : sd \in Seeds}

BaseConfig == Config(2, 1, Some(3), <<2, 2>>)

\* configs with one defect each
MalformedConfigs ==
    {Without(BaseConfig, k) : k \in DOMAIN BaseConfig}
    \cup {[BaseConfig EXCEPT !.actor = [units |-> <<2, 2>>], !.critic = [units |-> <<2, 2>>]]}
    \cup {Config(2, 1, Some(3), fc) : fc \in {<<>>, <<2>>, <<0, 2>>, <<-1, 2>>, <<2, 0>>, <<2, -1>>}}
    \cup {Config(ss, 1, Some(3), <<2, 2>>) : ss \in {0, -1}}
    \cup {Config(2, as, Some(3), <<2, 2>>) : as \in {0, -1, -2}}

Configs == ValidConfigs \cup MalformedConfigs

---------------------------------------------------------------------------
(* Forward passes.  A tensor of shape (batch, width) is a sequence of rows.  A      *)
(* forward call works on a record acc: the module (self, whose normalization        *)
(* stages a training-mode call updates in place), the tensor flowing through the    *)
(* stages (x) and err, "ok" until a statement raises.  What torch raises is         *)
(* "DimensionMismatch" (a RuntimeError about tensor sizes that do not fit) or       *)
(* "ValueError" (batch normalization refusing a single training sample).            *)

\* x.size(1)
Width(x) == IF Len(x) = 0 THEN 0 ELSE Len(x[1])

Start(self, x) == [err |-> "ok", self |-> self, x |-> x]

\* an exception leaves the call without a value
Throw(acc, kind) == [acc EXCEPT !.err = kind, !.x = <<>>]

\* the inner product of two rows of n elements
Dot(a, b, n) == FSum([i \in 1..n |-> FMul(a[i], b[i])], n)

\* F.linear(x, weight, bias): x times the transposed weight, plus the bias
linear(layer, x) ==
    [r \in 1..Len(x) |->
        [j \in 1..layer.out_features |->
            FAdd(Dot(x[r], layer.weight.data[j], layer.in_features), layer.bias[j])]]

\* x = self.<name>(x) for a linear stage: the width of x must be the stage's input width
ApplyLinear(acc, name) ==
    IF acc.err # "ok" THEN acc
    ELSE IF Width(acc.x) # acc.self[name].in_features THEN Throw(acc, "DimensionMismatch")
    ELSE [acc EXCEPT !.x = linear(acc.self[name], acc.x)]

\* the momentum of the running statistics, 0.1
Momentum == Scale \div 10

\* eps = 1e-5, in units of 1/Scale^2
EpsUnits == (Scale * Scale) \div 100000

\* sqrt(var + eps)
SqrtEps(var) ==
    IF IsNaN(var) \/ var < 0 THEN NaN
    ELSE IF var = PInf THEN PInf
    ELSE ISqrt(var * Scale + EpsUnits)

\* (v - mean) / sqrt(var + eps) * weight + bias
Normalize(v, mean, var, weight, bias) ==
    FAdd(FMul(FDiv(FSub(v, mean), SqrtEps(var)), weight), bias)

\* the normalization of every element of x with per-feature statistics
batch_norm(bn, x, mean, var) ==
    [r \in 1..Len(x) |->
        [c \in 1..bn.num_features |->
            Normalize(x[r][c], mean[c], var[c], bn.weight[c], bn.bias[c])]]

Square(d) == FMul(d, d)

\* per-feature mean over the batch
BatchMeans(x, n) ==
    [c \in 1..n |-> FDivInt(FSum([r \in 1..Len(x) |-> x[r][c]], Len(x)), Len(x))]

\* per-feature (biased) variance over the batch
BatchVars(x, n, mean) ==
    [c \in 1..n |->
        FDivInt(FSum([r \in 1..Len(x) |-> Square(FSub(x[r][c], mean[c]))], Len(x)), Len(x))]

\* the unbiased variance of n samples; of a single sample it is undefined
Unbiased(var, n) ==
    IF n = 1 THEN NaN
    ELSE IF IsFin(var) THEN FRound(TDiv(var * n, n - 1))
    ELSE var

\* running = (1 - momentum) * running + momentum * observed
Lerp(running, observed) ==
    FAdd(FMul(Scale - Momentum, running), FMul(Momentum, observed))

\* the running statistics move toward the statistics of the batch
Track(bn, x, mean, var) ==
    [bn EXCEPT !.running_mean = [c \in 1..bn.num_features |-> Lerp(bn.running_mean[c], mean[c])],
               !.running_var = [c \in 1..bn.num_features |->
                                   Lerp(bn.running_var[c], Unbiased(var[c], Len(x)))]]

NormWithStats(acc, name, mean, var) ==
    [acc EXCEPT !.x = batch_norm(acc.self[name], acc.x, mean, var),
                !.self[name] = Track(acc.self[name], acc.x, mean, var)]

NormWithMean(acc, name, mean) ==
    NormWithStats(acc, name, mean, BatchVars(acc.x, acc.self[name].num_features, mean))

\* normalization with the statistics of the batch itself
NormByBatch(acc, name) ==
    NormWithMean(acc, name, BatchMeans(acc.x, acc.self[name].num_features))

\* a training-mode normalization that accepts any batch size
UncheckedBatchNorm(acc, name) == NormByBatch(acc, name)

\* F.batch_norm in training mode: a batch of one sample per feature is refused
TrainingBatchNorm(acc, name) ==
    IF Len(acc.x) = 1 THEN Throw(acc, "ValueError") ELSE NormByBatch(acc, name)

\* F.batch_norm in evaluation mode: normalization with the running statistics
EvalBatchNorm(acc, name) ==
    [acc EXCEPT !.x = batch_norm(acc.self[name], acc.x,
                                 acc.self[name].running_mean, acc.self[name].running_var)]

\* self.num_batches_tracked.add_(1), which precedes F.batch_norm
CountBatch(acc, name) == [acc EXCEPT !.self[name].num_batches_tracked = @ + 1]

\* a normalization stage that ignores the module's mode
BatchNormAlwaysTraining(acc, name) == TrainingBatchNorm(CountBatch(acc, name), name)

\* nn.BatchNorm1d.forward: batch statistics in training mode, running statistics otherwise
BatchNormForward(acc, name) ==
    IF acc.self.training
    THEN TrainingBatchNorm(CountBatch(acc, name), name)
    ELSE EvalBatchNorm(acc, name)

\* x = self.<name>(x) for a normalization stage
ApplyNorm(acc, name) ==
    IF acc.err # "ok" THEN acc ELSE BatchNormForward(acc, name)

Relu(a) == IF IsNaN(a) THEN NaN ELSE IF a < 0 THEN 0 ELSE a

\* F.relu, elementwise
relu(x) == [r \in DOMAIN x |-> [c \in DOMAIN x[r] |-> Relu(x[r][c])]]

\* x = F.relu(x)
ApplyRelu(acc) ==
    IF acc.err # "ok" THEN acc ELSE [acc EXCEPT !.x = relu(acc.x)]

\* a2 / d in units twenty times finer than those of d, rounded down
DivFine(a2, d) == (a2 \div d) * 400 + ((a2 % d) * 400) \div d

\* tanh x = x / (1 + x^2 / (3 + x^2 / (5 + ...))): the denominator from its k-th level
\* on, in units of 1/(20 Scale), a2 being x^2 in units of 1/Scale^2
RECURSIVE TanhDen(_, _)
TanhDen(a2, k) ==
    IF k = 14 THEN (2 * k + 1) * 20 * Scale
    ELSE (2 * k + 1) * 20 * Scale + DivFine(a2, TanhDen(a2, k + 1))

\* a / d, rounded to the nearest float
TanhNear(a, d) == (2 * a * 20 * Scale + d) \div (2 * d)

\* tanh of a float that is not negative: 1 from 9 on, as in single precision
TanhPos(a) == IF a >= 9 * Scale THEN Scale ELSE TanhNear(a, TanhDen(a * a, 0))

\* no squashing at all
NoTanh(a) == a

\* tanh: NaN for NaN, odd, +-1 for the infinities
Tanh(a) == IF IsNaN(a) THEN NaN ELSE Sgn(a) * TanhPos(Abs(a))

\* torch.tanh, elementwise
tanh(x) == [r \in DOMAIN x |-> [c \in DOMAIN x[r] |-> Tanh(x[r][c])]]

\* x = torch.tanh(x)
ApplyTanh(acc) ==
    IF acc.err # "ok" THEN acc ELSE [acc EXCEPT !.x = tanh(acc.x)]

\* a concatenation that stops at the shorter batch
CatShortest(acc, action) ==
    IF acc.err # "ok" THEN acc
    ELSE [acc EXCEPT !.x = [r \in 1..(IF Len(acc.x) < Len(action) THEN Len(acc.x) ELSE Len(action))
                               |-> acc.x[r] \o action[r]]]

\* x = torch.cat((xs, action), dim=1): the batch sizes must agree
ApplyCat(acc, action) ==
    IF acc.err # "ok" THEN acc
    ELSE IF Len(action) # Len(acc.x) THEN Throw(acc, "DimensionMismatch")
    ELSE [acc EXCEPT !.x = [r \in 1..Len(acc.x) |-> acc.x[r] \o action[r]]]

\* Actor.forward(state)
ActorForward(self, state) ==
    ApplyTanh(
        ApplyLinear(
            ApplyRelu(ApplyNorm(ApplyLinear(
                ApplyRelu(ApplyNorm(ApplyLinear(Start(self, state), "fc1"), "bc1")),
                "fc2"), "bc2")),
            "fc3"))

\* Critic.forward(state, action)
CriticForward(self, state, action) ==
    ApplyLinear(
        ApplyRelu(ApplyNorm(ApplyLinear(
            ApplyCat(
                ApplyRelu(ApplyNorm(ApplyLinear(Start(self, state), "fcs1"), "bc1")),
                action),
            "fc2"), "bc2")),
        "fc3")

---------------------------------------------------------------------------
(* Operations *)

NoCall == [op |-> "none"]

Init ==
    /\ gen \in 0..(RngMod - 1)
    /\ net = NoNet
    /\ kept = NoNet
    /\ last = NoCall

\* net = Actor(config)
ConstructActor(config) ==
    \E r \in {ActorInit(config, gen)} :
        /\ net' = r.net
        /\ gen' = r.gen
        /\ last' = [op |-> "Actor.__init__", role |-> "actor", config |-> config,
                    outcome |-> r.outcome, seeded |-> r.seeded]
        /\ UNCHANGED kept

\* net = Critic(config)
ConstructCritic(config) ==
    \E r \in {CriticInit(config, gen)} :
        /\ net' = r.net
        /\ gen' = r.gen
        /\ last' = [op |-> "Critic.__init__", role |-> "critic", config |-> config,
                    outcome |-> r.outcome, seeded |-> r.seeded]
        /\ UNCHANGED kept

IsInit(call) == call.op \in {"Actor.__init__", "Critic.__init__"}

\* self.reset_parameters() on a constructed network, the generator being in state g
reset_parameters(self, g) ==
    IF self.role = "Actor"
    THEN ActorResetParameters([ok |-> TRUE, self |-> self, gen |-> g, seeded |-> FALSE])
    ELSE CriticResetParameters([ok |-> TRUE, self |-> self, gen |-> g, seeded |-> FALSE])

\* net.reset_parameters(): the weights of the three linear stages are drawn anew
ResetParameters ==
    /\ net.role # "none"
    /\ \E r \in {reset_parameters(net, gen)} :
        /\ net' = r.self
        /\ gen' = r.gen
        /\ last' = [op |-> "reset_parameters",
                    outcome |-> IF r.ok THEN "ok" ELSE "RuntimeError"]
    /\ UNCHANGED kept

\* the caller copies the network just constructed
Keep ==
    /\ IsInit(last) /\ last.outcome = "ok"
    /\ kept' = [role |-> net.role, config |-> last.config, net |-> net, drawn |-> FALSE]
    /\ last' = [op |-> "copy"]
    /\ UNCHANGED <<gen, net>>

\* some other code draws a number from the process-wide generator; the copy the caller
\* holds, if any, remembers that a draw was made after it was taken
RandomDraw ==
    /\ gen' = RngStep(gen)
    /\ last' = [op |-> "draw"]
    /\ kept' = IF kept.role = "none" THEN kept ELSE [kept EXCEPT !.drawn = TRUE]
    /\ UNCHANGED net

Next ==
    \/ \E config \in Configs : ConstructActor(config)
    \/ \E config \in Configs : ConstructCritic(config)
    \/ ResetParameters

\* construction, from any state of the generator, with every config of Configs
Spec == Init /\ [][Next]_vars

\* configs for repeated construction: one shape with two seeds, another without a seed
SeedConfigs ==
    {Config(2, 1, Some(3), <<2, 2>>), Config(2, 1, Some(4), <<2, 2>>),
     Config(1, 2, None, <<2, 1>>)}

\* the caller copies a network constructed with a seed
KeepSeeded == IsInit(last) /\ last.seeded /\ Keep

NextSeed ==
    \/ \E config \in SeedConfigs : ConstructActor(config)
    \/ \E config \in SeedConfigs : ConstructCritic(config)
    \/ ResetParameters
    \/ KeepSeeded
    \/ RandomDraw

\* repeated construction, with other constructions and other draws in between
SpecSeed == Init /\ [][NextSeed]_vars

---------------------------------------------------------------------------
(* Forward calls, mode changes and parameter updates on the constructed network *)

\* a row whose elements all have the value v
Row(width, v) == [i \in 1..width |-> v]

\* values of a state's features, of both signs
StateValues == {-(2 * Scale), 4 * Scale}

\* the value of an action's components
ActionValue == Scale \div 2

\* the values of the rows of a batch of n rows: equal rows but for the last one
Levels(n) == {[r \in 1..n |-> IF r < n THEN -(2 * Scale) ELSE v] : v \in StateValues}

\* a batch of n equal rows
Batch(n, width, v) == [r \in 1..n |-> Row(width, v)]

\* batches of 1..MaxBatch states of the given width, and a full batch one feature too wide
StateInputs(width) ==
    UNION {{[r \in 1..n |-> Row(width, s[r])] : s \in Levels(n)} : n \in 1..MaxBatch}
    \cup {Batch(MaxBatch, width + 1, ActionValue)}

\* batches of 1..MaxBatch actions of the given width, and a full batch one component
\* too wide
ActionInputs(width) ==
    {Batch(n, width, ActionValue) : n \in 1..MaxBatch}
    \cup {Batch(MaxBatch, width + 1, ActionValue)}

\* the width of the actions a critic was built for: fc2 takes fcs1's output and the action
ActionWidth(self) == self.fc2.in_features - self.fcs1.out_features

\* the state batches a caller may pass to the network
StatesFor(self) ==
    IF self.role = "Actor" THEN StateInputs(self.fc1.in_features)
    ELSE IF self.role = "Critic" THEN StateInputs(self.fcs1.in_features)
    ELSE {}

\* the action batches a caller may pass to a critic
ActionsFor(self) == IF self.role = "Critic" THEN ActionInputs(ActionWidth(self)) ELSE {}

\* configs of the actors and of the critics that forward calls are made on
ActorConfigs == {Config(2, 2, Some(4), <<2, 2>>)}
CriticConfigs == {Config(2, 1, Some(3), <<2, 2>>)}

\* values an optimizer step may leave in the weights and in the biases: large ones, ones
\* near the largest finite float, and the infinite weights of a diverged optimization
ParameterChoices == {<<ToFloat(2), Scale \div 2>>, <<MaxFin \div 2, 0>>, <<PInf, 0>>}

\* the caller is between two calls
Ready == last = NoCall

\* the caller is done with the result of the last call
Drop ==
    /\ ~Ready
    /\ last' = NoCall
    /\ UNCHANGED <<gen, net, kept>>

NewActor(config) == Ready /\ ConstructActor(config)

NewCritic(config) == Ready /\ ConstructCritic(config)

Reset == Ready /\ ResetParameters

\* net.train() and net.eval(), inherited from nn.Module
SetMode(training) ==
    /\ Ready
    /\ net.role # "none"
    /\ net.training # training
    /\ net' = [net EXCEPT !.training = training]
    /\ UNCHANGED <<gen, kept, last>>

\* every weight of the layer becomes w, every bias b
SetLinear(layer, w, b) ==
    [layer EXCEPT !.weight.data = [r \in 1..layer.out_features |-> Row(layer.in_features, w)],
                  !.bias = Row(layer.out_features, b)]

WithParameters(self, w, b) ==
    IF self.role = "Actor"
    THEN [self EXCEPT !.fc1 = SetLinear(self.fc1, w, b),
                      !.fc2 = SetLinear(self.fc2, w, b),
                      !.fc3 = SetLinear(self.fc3, w, b)]
    ELSE [self EXCEPT !.fcs1 = SetLinear(self.fcs1, w, b),
                      !.fc2 = SetLinear(self.fc2, w, b),
                      !.fc3 = SetLinear(self.fc3, w, b)]

\* the optimizer, or a copy from another network, overwrites the parameters in place
LoadParameters(p) ==
    /\ Ready
    /\ net.role # "none"
    /\ net' = WithParameters(net, p[1], p[2])
    /\ UNCHANGED <<gen, kept, last>>

\* a training-mode call counts one more batch, which the model caps
MayForward(self) == self.training => self.bc1.num_batches_tracked < MaxTracked

\* net(state) on an Actor
CallActor(state) ==
    /\ Ready
    /\ net.role = "Actor"
    /\ MayForward(net)
    /\ \E r \in {ActorForward(net, state)} :
        /\ net' = r.self
        /\ last' = [op |-> "Actor.forward", training |-> net.training, state |-> state,
                    action |-> <<>>, before |-> net, outcome |-> r.err, output |-> r.x]
    /\ UNCHANGED <<gen, kept>>

\* net(state, action) on a Critic
CallCritic(state, action) ==
    /\ Ready
    /\ net.role = "Critic"
    /\ MayForward(net)
    /\ \E r \in {CriticForward(net, state, action)} :
        /\ net' = r.self
        /\ last' = [op |-> "Critic.forward", training |-> net.training, state |-> state,
                    action |-> action, before |-> net, outcome |-> r.err, output |-> r.x]
    /\ UNCHANGED <<gen, kept>>

IsForward(call) == call.op \in {"Actor.forward", "Critic.forward"}

NextFwd ==
    \/ \E config \in ActorConfigs : NewActor(config)
    \/ \E config \in CriticConfigs : NewCritic(config)
    \/ Reset
    \/ \E training \in BOOLEAN : SetMode(training)
    \/ \E p \in ParameterChoices : LoadParameters(p)
    \/ \E state \in StatesFor(net) : CallActor(state)
    \/ \E state \in StatesFor(net) : \E action \in ActionsFor(net) : CallCritic(state, action)
    \/ Drop

\* forward calls in both modes on networks whose parameters and running statistics change
SpecFwd == Init /\ [][NextFwd]_vars

---------------------------------------------------------------------------
(* Claims about construction *)

\* 1/sqrt(n) for a width n
InvSqrt(n) == FDiv(ToFloat(1), FSqrt(ToFloat(n)))

\* the first two linear stages of a network
HiddenLayers(n) ==
    IF n.role = "Actor" THEN {n.fc1, n.fc2}
    ELSE IF n.role = "Critic" THEN {n.fcs1, n.fc2}
    ELSE {}

\* all elements of a matrix
Elements(data) == {data[r][c] : r \in DOMAIN data, c \in UNION {DOMAIN data[q] : q \in DOMAIN data}}

\* the config has positive sizes and at least two positive hidden widths for the role
WellFormed(config, role) ==
    /\ {"state_size", "action_size", role} \subseteq DOMAIN config
    /\ "fc" \in DOMAIN config[role]
    /\ Len(config[role].fc) >= 2
    /\ config.state_size > 0 /\ config.action_size > 0
    /\ config[role].fc[1] > 0 /\ config[role].fc[2] > 0

\* C1: hidden_init of a linear layer with input width n and output width m, both
\* positive, returns (-1/sqrt(n), 1/sqrt(n)): the bound comes from the input width.
C1_BoundFromInputWidth ==
    \A layer \in HiddenLayers(net) :
        (layer.in_features > 0 /\ layer.out_features > 0)
            => hidden_init(layer) = <<FNeg(InvSqrt(layer.in_features)), InvSqrt(layer.in_features)>>

\* C2: immediately after construction from a valid config, every weight of the first two
\* linear stages lies within [-1/sqrt(fan_in), 1/sqrt(fan_in)], fan_in the stage's
\* declared input width.
C2_HiddenWeightsWithinFanInBound ==
    (IsInit(last) /\ last.outcome = "ok" /\ WellFormed(last.config, last.role))
        => \A layer \in HiddenLayers(net) :
              \A w \in Elements(layer.weight.data) : Abs(w) <= InvSqrt(layer.in_features)

\* the weights and biases of the three linear stages
First(n) == IF n.role = "Actor" THEN n.fc1 ELSE n.fcs1

Parameters(n) ==
    <<First(n).weight.data, First(n).bias, n.fc2.weight.data, n.fc2.bias,
      n.fc3.weight.data, n.fc3.bias>>

\* a network has been constructed after the copy was taken, from the config of the copy,
\* which has a seed
SameSeededConfig ==
    /\ kept.role # "none"
    /\ IsInit(last) /\ last.outcome = "ok"
    /\ net.role = kept.role
    /\ last.config = kept.config
    /\ last.config.random_seed # None

\* C3: two constructions of the same role from the same config with a seed yield
\* identical initial parameters, whatever was constructed or drawn before or in between.
C3_SameSeedSameParameters ==
    SameSeededConfig => Parameters(net) = Parameters(kept.net)

\* C3 witness: after a copy was taken and other code drew from the generator, a second
\* network has been constructed from the copy's config and seed, with the same parameters
C3_Witness ==
    /\ SameSeededConfig /\ kept.drawn
    /\ WellFormed(last.config, last.role)
    /\ Parameters(net) = Parameters(kept.net)

\* C4: a config without the random_seed key, otherwise valid, constructs a network (and
\* the generator is not seeded).
C4_AbsentKeyAccepted ==
    (IsInit(last) /\ "random_seed" \notin DOMAIN last.config /\ WellFormed(last.config, last.role))
        => (last.outcome = "ok" /\ net.role # "none" /\ ~last.seeded)

\* C5: construction from a malformed config (a missing required key, fewer than two
\* hidden widths, a non-positive size) fails and yields no network.
C5_MalformedConfigRejected ==
    (IsInit(last) /\ ~WellFormed(last.config, last.role))
        => (last.outcome # "ok" /\ net = NoNet)

---------------------------------------------------------------------------
(* Claims about forward passes *)

\* the running mean and variance of both normalization stages
RunningStats(n) ==
    <<n.bc1.running_mean, n.bc1.running_var, n.bc2.running_mean, n.bc2.running_var>>

\* the numbers of batches both normalization stages have tracked
Tracked(n) == <<n.bc1.num_batches_tracked, n.bc2.num_batches_tracked>>

\* the call recorded in `call`, made on the network n
Again(n, call) ==
    IF call.op = "Actor.forward"
    THEN ActorForward(n, call.state)
    ELSE CriticForward(n, call.state, call.action)

\* the last call was Critic.forward with a state batch and an action batch of the right
\* widths and of different sizes
BatchSizesDiffer ==
    /\ last.op = "Critic.forward"
    /\ Width(last.state) = last.before.fcs1.in_features
    /\ Width(last.action) = ActionWidth(last.before)
    /\ Len(last.state) # Len(last.action)

\* C6 as claimed: Critic.forward on batches of different sizes always fails with a
\* dimension-mismatch error, in training mode and in evaluation mode.
C6_BatchMismatchIsDimensionError ==
    BatchSizesDiffer => (last.outcome = "DimensionMismatch" /\ last.output = <<>>)

\* C6 amended: Critic.forward on batches of different sizes always fails and yields no
\* output.  The error is a dimension mismatch, except in training mode with a state batch
\* of one sample, which the first normalization stage refuses (ValueError) before the
\* batches are concatenated.
C6_BatchMismatchFails ==
    BatchSizesDiffer =>
        /\ last.outcome \in {"DimensionMismatch", "ValueError"}
        /\ last.output = <<>>
        /\ last.outcome = "ValueError" <=> (last.training /\ Len(last.state) = 1)

\* C6 witness: an evaluation-mode call with well-shaped rows and different batch sizes
\* has failed with a dimension mismatch
C6_Witness ==
    /\ BatchSizesDiffer /\ ~last.training
    /\ last.outcome = "DimensionMismatch" /\ last.output = <<>>

\* C7: an evaluation-mode forward call leaves the running statistics, the batch counts and
\* the parameters as they were, and the same call repeated right after it ends the same
\* way with the same output; only a training-mode call may change the running statistics.
C7_EvalForwardChangesNothing ==
    IsForward(last) =>
        /\ ~last.training =>
            /\ RunningStats(net) = RunningStats(last.before)
            /\ Tracked(net) = Tracked(last.before)
            /\ Parameters(net) = Parameters(last.before)
            /\ \E again \in {Again(net, last)} :
                    again.err = last.outcome /\ again.x = last.output
        /\ RunningStats(net) # RunningStats(last.before) => last.training

\* C7 witness: an evaluation-mode call has returned an output on a network whose running
\* statistics an earlier training-mode call had moved
C7_Witness ==
    /\ IsForward(last) /\ ~last.training /\ last.outcome = "ok"
    /\ net.bc2.num_batches_tracked > 0
    /\ net.bc2.running_mean # Row(net.bc2.num_features, 0)
    /\ RunningStats(net) = RunningStats(last.before)
    /\ Again(net, last).x = last.output

\* the elements of the output of the last call
OutputElements == Elements(last.output)

\* the last call was Actor.forward on a well-shaped state batch and returned
ActorReturned ==
    /\ last.op = "Actor.forward" /\ last.outcome = "ok"
    /\ Width(last.state) = net.fc1.in_features

\* the output has one row per state and one column per action component
OutputShaped ==
    /\ Len(last.output) = Len(last.state)
    /\ \A r \in 1..Len(last.output) : Len(last.output[r]) = net.fc3.out_features

\* every element of the tensor is a finite number
TensorFinite(x) == \A e \in Elements(x) : IsFin(e)

LinearFinite(layer) == TensorFinite(layer.weight.data) /\ TensorFinite(<<layer.bias>>)

NormFinite(bn) ==
    TensorFinite(<<bn.weight, bn.bias, bn.running_mean, bn.running_var>>)

\* every parameter and every running statistic of the network is finite
NetFinite(n) ==
    /\ LinearFinite(First(n)) /\ LinearFinite(n.fc2) /\ LinearFinite(n.fc3)
    /\ NormFinite(n.bc1) /\ NormFinite(n.bc2)

\* the stage left finite values in the tensor and in the running statistics
StageFinite(acc) ==
    acc.err = "ok" /\ TensorFinite(acc.x) /\ NormFinite(acc.self.bc1) /\ NormFinite(acc.self.bc2)

\* Actor.forward(state) on the network n met no value that is not finite: the parameters,
\* the running statistics and the state are finite, and so is what each linear stage and
\* each normalization stage computes (relu and tanh do not leave the finite numbers)
NothingOverflows(n, state) ==
    /\ NetFinite(n) /\ TensorFinite(state)
    /\ \E s1 \in {ApplyLinear(Start(n, state), "fc1")} :
       \E s2 \in {ApplyNorm(s1, "bc1")} :
       \E s3 \in {ApplyLinear(ApplyRelu(s2), "fc2")} :
       \E s4 \in {ApplyNorm(s3, "bc2")} :
       \E s5 \in {ApplyLinear(ApplyRelu(s4), "fc3")} :
           StageFinite(s1) /\ StageFinite(s2) /\ StageFinite(s3) /\ StageFinite(s4)
               /\ StageFinite(s5)

\* every element of the output of the last call lies in [-1, 1]
WithinUnitRange == \A e \in OutputElements : -Scale <= e /\ e <= Scale

\* C8 as claimed: Actor.forward returns a tensor of shape (batch, action_size) whose every
\* element lies in [-1, 1], for any parameters, running statistics and input magnitudes.
C8_OutputWithinUnitRange ==
    ActorReturned => (OutputShaped /\ WithinUnitRange)

\* C8 amended: Actor.forward returns a tensor of shape (batch, action_size) whose every
\* element lies in [-1, 1] or is NaN, and it lies in [-1, 1] whenever the parameters, the
\* running statistics and the state are finite and no stage overflows: NaN comes only from
\* a value that is not finite, which tanh passes on.
C8_OutputWithinUnitRangeUnlessOverflow ==
    ActorReturned =>
        /\ OutputShaped
        /\ \A e \in OutputElements : IsNaN(e) \/ (-Scale <= e /\ e <= Scale)
        /\ NothingOverflows(last.before, last.state) => WithinUnitRange

\* C8 witness: a training-mode call on a full batch, on a network with large finite
\* weights, met no overflow and has returned an output saturated at 1
C8_Witness ==
    /\ ActorReturned /\ OutputShaped /\ last.training
    /\ Len(last.state) = MaxBatch
    /\ last.before.fc3.weight.data[1][1] = ToFloat(2)
    /\ NothingOverflows(last.before, last.state)
    /\ WithinUnitRange
    /\ \E e \in OutputElements : e = Scale

\* the output of the call recorded in `call`, had the network been in evaluation mode
EvalOutput(call) == Again([call.before EXCEPT !.training = FALSE], call).x

\* C9: a training-mode forward call on a batch of one sample is rejected with an error, or
\* returns what the running statistics give; it never normalizes with the statistics of
\* the single sample.  A freshly constructed network is in training mode.
C9_SingleSampleTrainingRejected ==
    /\ (IsForward(last) /\ last.training /\ Len(last.state) = 1)
        => \/ (last.outcome # "ok" /\ last.output = <<>>)
           \/ (last.outcome = "ok" /\ last.output = EvalOutput(last))
    /\ (IsInit(last) /\ last.outcome = "ok") => net.training

\* C9 witness: the first forward call on a freshly constructed network, on one sample with
\* well-shaped inputs, has been refused by the normalization stage
C9_Witness ==
    /\ IsForward(last) /\ last.training /\ Len(last.state) = 1
    /\ Tracked(last.before) = <<0, 0>>
    /\ last.outcome = "ValueError" /\ last.output = <<>>

\* C10: a Critic.forward call that fails in training mode on a dimension mismatch caused by
\* the action leaves the running statistics of both normalization stages unchanged.
C10_FailedForwardKeepsStatistics ==
    (/\ last.op = "Critic.forward" /\ last.training
     /\ last.outcome = "DimensionMismatch"
     /\ Width(last.state) = last.before.fcs1.in_features)
        => RunningStats(net) = RunningStats(last.before)

=============================================================================
